---- MODULE Spec2Model ----
(***************************************************************************)
(* State-machine model of the render orchestrator of webgpu-gltf-viewer:   *)
(* the useWebGPU hook (lifecycle effect, asynchronous initWebGPU, the      *)
(* requestAnimationFrame render loop, resize) together with the            *)
(* TriangleRenderer, ModelRenderer and PostProcessingRenderer providers.   *)
(*                                                                         *)
(* JavaScript is single-threaded: every action below is one synchronous    *)
(* run-to-completion piece of code, i.e. the code between two awaits of    *)
(* initWebGPU, one requestAnimationFrame callback, one effect or cleanup.  *)
(* Objects created by generation g (device, WebGPUResources, renderers)    *)
(* are identified by g; 0 stands for null / undefined.                     *)
(***************************************************************************)
EXTENDS Integers, Sequences, FiniteSets, TLC

\* ------------------------------------------------------------------ bounds
MaxGen == 2
MaxFrames == 2
MaxTex == 6

Gens == 1 .. MaxGen

\* ------------------------------------------------- inputs of the environment
\* (width, height) props the hook can be rendered with
Sizes == { <<800, 600>>, <<401, 301>>, <<0, 600>>, <<800, -1>> }

\* (newWidth, newHeight) arguments of resize
ResizeSizes == { <<401, 301>> }

\* window.devicePixelRatio, in halves (3 -> 1.5)
DprHalves == { 3 }

\* glTF documents loadModel can resolve to: the number of meshes, the
\* number of primitives of the first mesh, the POSITION array (absent: <<>>
\* with hasPosition FALSE), the TEXCOORD_0 array and the index array.
Docs ==
  { [name |-> "noMesh",      meshes |-> 0, primitives |-> 0, hasPosition |-> FALSE,
     positions |-> <<>>, hasTexcoord |-> FALSE, texcoords |-> <<>>,
     hasIndices |-> FALSE, indices |-> <<>>],
    [name |-> "noPrimitive", meshes |-> 1, primitives |-> 0, hasPosition |-> FALSE,
     positions |-> <<>>, hasTexcoord |-> FALSE, texcoords |-> <<>>,
     hasIndices |-> FALSE, indices |-> <<>>],
    [name |-> "noPosition",  meshes |-> 1, primitives |-> 1, hasPosition |-> FALSE,
     positions |-> <<>>, hasTexcoord |-> FALSE, texcoords |-> <<>>,
     hasIndices |-> FALSE, indices |-> <<>>],
    [name |-> "plain",       meshes |-> 1, primitives |-> 1, hasPosition |-> TRUE,
     positions |-> <<0, 0, 0, 1, 0, 0, 0, 1, 0>>, hasTexcoord |-> FALSE, texcoords |-> <<>>,
     hasIndices |-> FALSE, indices |-> <<>>],
    [name |-> "indexed",     meshes |-> 2, primitives |-> 1, hasPosition |-> TRUE,
     positions |-> <<0, 0, 0, 1, 0, 0, 0, 1, 0, 1, 1, 0>>, hasTexcoord |-> TRUE,
     texcoords |-> <<0, 0, 1, 0, 0, 1, 1, 1>>,
     hasIndices |-> TRUE, indices |-> <<0, 1, 2, 2, 1, 3>>] }

\* ------------------------------------------------------------------- state
VARIABLES
  hasGpu,              \* navigator.gpu is defined
  dprHalves,           \* window.devicePixelRatio * 2
  canvasMounted,       \* canvasRef.current is the canvas (not null)
  canvasW, canvasH,    \* canvas.width, canvas.height
  configuredDevice,    \* device of the last context.configure (0: never)
  error,               \* React state `error` ("" is null)
  isInitialized,       \* React state `isInitialized`
  deviceRef, contextRef, resourcesRef,
  triangleRendererRef, modelRendererRef, postRendererRef,
  animationIdRef,      \* handle of the last requested frame (0 is null)
  generationRef, aliveRef,
  task,                \* per generation: the position of initWebGPU(gen) and its locals
  resources,           \* per generation: the WebGPUResources object
  triangle, model, post, \* per generation: the renderer objects
  textures,            \* every GPUTexture created for the scene targets, by id
  scheduled,           \* requestAnimationFrame callbacks not yet run or cancelled
  nextHandle,          \* the next requestAnimationFrame handle
  lastFrame,           \* what the last execution of render() did
  lastStep,            \* what the last resumed step of initWebGPU stored
  submitted,           \* generations whose render() has submitted a command buffer
  renderFailed,        \* generations whose render() reached its catch block
  lastResize,          \* the arguments of resize, when it was the last operation
  uIn,                 \* provider-level harness: the input a function is applied to
  uOut,                \* provider-level harness: what the function returned or threw
  uPost,               \* provider-level harness: a PostProcessingRenderer on its own
  uRebind              \* provider-level harness: the last updateSceneTexture call

vars == << hasGpu, dprHalves, canvasMounted, canvasW, canvasH, configuredDevice,
           error, isInitialized, deviceRef, contextRef, resourcesRef,
           triangleRendererRef, modelRendererRef, postRendererRef, animationIdRef,
           generationRef, aliveRef, task, resources, triangle, model, post, textures,
           scheduled, nextHandle, lastFrame, lastStep, submitted, renderFailed, lastResize,
           uIn, uOut, uPost, uRebind >>

envVars == << hasGpu, dprHalves >>
refVars == << deviceRef, contextRef, resourcesRef, triangleRendererRef,
              modelRendererRef, postRendererRef >>
canvasVars == << canvasW, canvasH, configuredDevice >>
objVars == << resources, triangle, model, post, textures >>
loopVars == << animationIdRef, scheduled, nextHandle, lastFrame, submitted, renderFailed >>
unitVars == << uIn, uOut, uPost, uRebind >>
hookVars == << envVars, canvasMounted, canvasVars, error, isInitialized, refVars,
               generationRef, aliveRef, task, objVars, loopVars, lastStep, lastResize >>

\* ------------------------------------------------------------ error messages
ErrUnsupported == "WebGPU is not supported in this browser"
ErrAdapter == "Could not request WebGPU adapter"
ErrDevice == "requestDevice rejected"
ErrShader == "Failed to load shader"
ErrFetchModel == "Failed to fetch model"
ErrNoMesh == "No meshes found in glTF document"
ErrNoPrimitive == "No primitives found in mesh"
ErrNoPosition == "POSITION attribute not found in primitive"
ErrRender == "Render error"

\* ---------------------------------------------------------- initial state
\* errorAtStart records whether the error was set when initWebGPU was called
NoTask == [pc |-> "idle", w |-> 0, h |-> 0, color |-> 0, depth |-> 0,
           adapter |-> "none", device |-> "none", doc |-> "none",
           errorAtStart |-> FALSE]
NoResources == [created |-> FALSE, sceneColorTexture |-> 0, sceneDepthTexture |-> 0]
NoTriangle == [created |-> FALSE, pipeline |-> FALSE, isInitialized |-> FALSE,
               destroyed |-> FALSE]
NoModel == [created |-> FALSE, isInitialized |-> FALSE, indexed |-> FALSE,
            indexFormat |-> "none", vertexCount |-> 0, indexCount |-> 0,
            destroyed |-> FALSE]
NoPost == [created |-> FALSE, isInitialized |-> FALSE, sceneColorTexture |-> 0,
           bindGroup |-> 0, destroyed |-> FALSE]
NoFrame == [gen |-> 0, cur |-> 0, alive |-> FALSE, outcome |-> "none", steps |-> <<>>]
NoStep == [superseded |-> FALSE, installs |-> {}]
NoResize == << 0, 0 >>

\* the hook after its first render, before any effect has run
HookInit ==
  /\ hasGpu \in BOOLEAN
  /\ dprHalves \in DprHalves
  /\ canvasMounted = TRUE
  /\ canvasW = 300 /\ canvasH = 150
  /\ configuredDevice = 0
  /\ error = ""
  /\ isInitialized = FALSE
  /\ deviceRef = 0 /\ contextRef = 0 /\ resourcesRef = 0
  /\ triangleRendererRef = 0 /\ modelRendererRef = 0 /\ postRendererRef = 0
  /\ animationIdRef = 0
  /\ generationRef = 0
  /\ aliveRef = FALSE
  /\ task = [g \in Gens |-> NoTask]
  /\ resources = [g \in Gens |-> NoResources]
  /\ triangle = [g \in Gens |-> NoTriangle]
  /\ model = [g \in Gens |-> NoModel]
  /\ post = [g \in Gens |-> NoPost]
  /\ textures = <<>>
  /\ scheduled = {}
  /\ nextHandle = 1
  /\ lastFrame = NoFrame
  /\ lastStep = NoStep
  /\ submitted = {}
  /\ renderFailed = {}
  /\ lastResize = NoResize

\* the harness at rest: no function applied, no stand-alone provider
NoInput == [kind |-> "none"]
NoOutput == [kind |-> "none"]
NoRebind == [tex |-> 0, before |-> NoPost, error |-> ""]

Init ==
  /\ HookInit
  /\ uIn = NoInput /\ uOut = NoOutput /\ uPost = NoPost /\ uRebind = NoRebind

\* ------------------------------------------------------------- small helpers
\* Math.floor(x * devicePixelRatio)
Scaled(x) == (x * dprHalves) \div 2

\* `!aliveRef.current || gen !== generationRef.current`
Stale(g) == ~aliveRef \/ g # generationRef

\* the record of a resumed step of initWebGPU(g) that stored `installs` into the
\* refs, the canvas or the resource factory
StepOf(g, installs) == [superseded |-> g # generationRef, installs |-> installs]

\* ----------------------------------------------------------- extractMesh
RECURSIVE MaxOf(_)
\* Math.max(...indices); -1 stands for -Infinity of the empty array
MaxOf(s) == IF s = <<>> THEN -1
            ELSE LET m == MaxOf(Tail(s)) IN IF Head(s) > m THEN Head(s) ELSE m

\* new Float32Array(n), filled with 0.0
Zeros(n) == [i \in 1 .. n |-> 0]

MeshError(msg) ==
  [error |-> msg, positions |-> <<>>, texcoords |-> <<>>, indices |-> <<>>,
   indexFormat |-> "none", vertexCount |-> 0, indexCount |-> 0]

\* extractMesh with the mesh check replaced by an empty placeholder mesh
extractMeshPlaceholder(d) ==
  IF d.meshes = 0
    THEN [MeshError("") EXCEPT !.indexFormat = "none"]
  ELSE IF d.primitives = 0 THEN MeshError(ErrNoPrimitive)
  ELSE IF ~d.hasPosition THEN MeshError(ErrNoPosition)
  ELSE LET vertexCount == Len(d.positions) \div 3 IN
       [error |-> "",
        positions |-> d.positions,
        texcoords |-> IF d.hasTexcoord THEN d.texcoords ELSE Zeros(vertexCount * 2),
        indices |-> IF d.hasIndices THEN d.indices ELSE <<>>,
        indexFormat |-> IF ~d.hasIndices THEN "none"
                        ELSE IF MaxOf(d.indices) <= 65535 THEN "uint16" ELSE "uint32",
        vertexCount |-> vertexCount,
        indexCount |-> IF d.hasIndices THEN Len(d.indices) ELSE 0]

\* extractMesh that still picks the 16-bit encoding at a maximum index of 65536
extractMeshWide(d) ==
  IF d.meshes = 0 THEN MeshError(ErrNoMesh)
  ELSE IF d.primitives = 0 THEN MeshError(ErrNoPrimitive)
  ELSE IF ~d.hasPosition THEN MeshError(ErrNoPosition)
  ELSE LET vertexCount == Len(d.positions) \div 3 IN
       [error |-> "",
        positions |-> d.positions,
        texcoords |-> IF d.hasTexcoord THEN d.texcoords ELSE Zeros(vertexCount * 2),
        indices |-> IF d.hasIndices THEN d.indices ELSE <<>>,
        indexFormat |-> IF ~d.hasIndices THEN "none"
                        ELSE IF MaxOf(d.indices) <= 65536 THEN "uint16" ELSE "uint32",
        vertexCount |-> vertexCount,
        indexCount |-> IF d.hasIndices THEN Len(d.indices) ELSE 0]

\* extractMesh without the check of the primitives
extractMeshNoPrimitiveCheck(d) ==
  IF d.meshes = 0 THEN MeshError(ErrNoMesh)
  ELSE IF ~d.hasPosition THEN MeshError(ErrNoPosition)
  ELSE LET vertexCount == Len(d.positions) \div 3 IN
       [error |-> "",
        positions |-> d.positions,
        texcoords |-> IF d.hasTexcoord THEN d.texcoords ELSE Zeros(vertexCount * 2),
        indices |-> IF d.hasIndices THEN d.indices ELSE <<>>,
        indexFormat |-> IF ~d.hasIndices THEN "none"
                        ELSE IF MaxOf(d.indices) <= 65535 THEN "uint16" ELSE "uint32",
        vertexCount |-> vertexCount,
        indexCount |-> IF d.hasIndices THEN Len(d.indices) ELSE 0]

\* extractMesh whose default texcoords hold one entry per vertex
extractMeshShortTexcoords(d) ==
  IF d.meshes = 0 THEN MeshError(ErrNoMesh)
  ELSE IF d.primitives = 0 THEN MeshError(ErrNoPrimitive)
  ELSE IF ~d.hasPosition THEN MeshError(ErrNoPosition)
  ELSE LET vertexCount == Len(d.positions) \div 3 IN
       [error |-> "",
        positions |-> d.positions,
        texcoords |-> IF d.hasTexcoord THEN d.texcoords ELSE Zeros(vertexCount),
        indices |-> IF d.hasIndices THEN d.indices ELSE <<>>,
        indexFormat |-> IF ~d.hasIndices THEN "none"
                        ELSE IF MaxOf(d.indices) <= 65535 THEN "uint16" ELSE "uint32",
        vertexCount |-> vertexCount,
        indexCount |-> IF d.hasIndices THEN Len(d.indices) ELSE 0]

\* extractMesh(document): the three checks in the order of the code, then the data
extractMesh(d) ==
  IF d.meshes = 0 THEN MeshError(ErrNoMesh)
  ELSE IF d.primitives = 0 THEN MeshError(ErrNoPrimitive)
  ELSE IF ~d.hasPosition THEN MeshError(ErrNoPosition)
  ELSE LET vertexCount == Len(d.positions) \div 3 IN
       [error |-> "",
        positions |-> d.positions,
        texcoords |-> IF d.hasTexcoord THEN d.texcoords ELSE Zeros(vertexCount * 2),
        indices |-> IF d.hasIndices THEN d.indices ELSE <<>>,
        indexFormat |-> IF ~d.hasIndices THEN "none"
                        ELSE IF MaxOf(d.indices) <= 65535 THEN "uint16" ELSE "uint32",
        vertexCount |-> vertexCount,
        indexCount |-> IF d.hasIndices THEN Len(d.indices) ELSE 0]

\* ------------------------------------------------------ lifecycle effect
\* initWebGPU's head without the navigator.gpu check
InitHeadNoGpuCheck(g, w, h) ==
  /\ error' = error
  /\ task' = [task EXCEPT ![g] =
       [@ EXCEPT !.pc = IF ~canvasMounted \/ w <= 0 \/ h <= 0
                          THEN "returned" ELSE "adapter",
                 !.w = w, !.h = h, !.errorAtStart = (error # "")]]

\* initWebGPU's head without the check of the dimensions
InitHeadNoSizeCheck(g, w, h) ==
  IF ~hasGpu
    THEN /\ error' = ErrUnsupported
         /\ task' = [task EXCEPT ![g] =
              [@ EXCEPT !.pc = "failed", !.w = w, !.h = h,
                        !.errorAtStart = (error # "")]]
    ELSE /\ error' = error
         /\ task' = [task EXCEPT ![g] =
              [@ EXCEPT !.pc = IF ~canvasMounted THEN "returned" ELSE "adapter",
                        !.w = w, !.h = h, !.errorAtStart = (error # "")]]

\* The synchronous head of initWebGPU(gen), up to its first await.
InitHead(g, w, h) ==
  IF ~hasGpu
    THEN /\ error' = ErrUnsupported
         /\ task' = [task EXCEPT ![g] =
              [@ EXCEPT !.pc = "failed", !.w = w, !.h = h,
                        !.errorAtStart = (error # "")]]
    ELSE /\ error' = error
         /\ task' = [task EXCEPT ![g] =
              [@ EXCEPT !.pc = IF ~canvasMounted \/ w <= 0 \/ h <= 0
                                 THEN "returned" ELSE "adapter",
                        !.w = w, !.h = h, !.errorAtStart = (error # "")]]

\* The effect body: mint the generation, set the liveness flag, call initWebGPU.
Start(w, h) ==
  /\ ~aliveRef
  /\ generationRef < MaxGen
  /\ generationRef' = generationRef + 1
  /\ aliveRef' = TRUE
  /\ InitHead(generationRef + 1, w, h)
  /\ lastResize' = NoResize
  /\ UNCHANGED unitVars
  /\ UNCHANGED << envVars, canvasMounted, canvasVars, isInitialized, refVars, objVars,
                  loopVars, lastStep >>

\* a cleanup that clears the liveness flag but leaves the requested frame pending
TeardownNoCancel ==
  /\ aliveRef
  /\ aliveRef' = FALSE
  /\ lastResize' = NoResize
  /\ UNCHANGED unitVars
  /\ UNCHANGED << envVars, canvasMounted, canvasVars, error, isInitialized, refVars,
                  generationRef, task, objVars, loopVars, lastStep >>

\* a cleanup that also drops the device and the resource factory
TeardownDropsDevice ==
  /\ aliveRef
  /\ aliveRef' = FALSE
  /\ IF animationIdRef # 0
       THEN /\ scheduled' = { cb \in scheduled : cb.id # animationIdRef }
            /\ animationIdRef' = 0
       ELSE UNCHANGED << scheduled, animationIdRef >>
  /\ deviceRef' = 0
  /\ resourcesRef' = 0
  /\ lastResize' = NoResize
  /\ UNCHANGED unitVars
  /\ UNCHANGED << envVars, canvasMounted, canvasVars, error, isInitialized, contextRef,
                  triangleRendererRef, modelRendererRef, postRendererRef,
                  generationRef, task, objVars, nextHandle, lastFrame, lastStep,
                  submitted, renderFailed >>

\* a cleanup that hands the generation token back
TeardownRewinds ==
  /\ aliveRef
  /\ aliveRef' = FALSE
  /\ IF animationIdRef # 0
       THEN /\ scheduled' = { cb \in scheduled : cb.id # animationIdRef }
            /\ animationIdRef' = 0
       ELSE UNCHANGED << scheduled, animationIdRef >>
  /\ generationRef' = generationRef - 1
  /\ lastResize' = NoResize
  /\ UNCHANGED unitVars
  /\ UNCHANGED << envVars, canvasMounted, canvasVars, error, isInitialized, refVars,
                  task, objVars, nextHandle, lastFrame, lastStep, submitted, renderFailed >>

\* The effect cleanup.
Teardown ==
  /\ aliveRef
  /\ aliveRef' = FALSE
  /\ IF animationIdRef # 0
       THEN /\ scheduled' = { cb \in scheduled : cb.id # animationIdRef }
            /\ animationIdRef' = 0
       ELSE UNCHANGED << scheduled, animationIdRef >>
  /\ lastResize' = NoResize
  /\ UNCHANGED unitVars
  /\ UNCHANGED << envVars, canvasMounted, canvasVars, error, isInitialized, refVars,
                  generationRef, task, objVars, nextHandle, lastFrame, lastStep,
                  submitted, renderFailed >>

\* React commits the error view: the canvas element is unmounted and the ref nulled.
CommitErrorView ==
  /\ error # ""
  /\ canvasMounted
  /\ canvasMounted' = FALSE
  /\ lastResize' = NoResize
  /\ UNCHANGED unitVars
  /\ UNCHANGED << envVars, canvasVars, error, isInitialized, refVars, generationRef,
                  aliveRef, task, objVars, loopVars, lastStep >>

\* ------------------------------------------- initWebGPU: adapter and device
\* `await navigator.gpu.requestAdapter()` resumes, with an adapter or with null.
AdapterResolved(g, ok) ==
  /\ task[g].pc = "adapter"
  /\ IF ok
       THEN /\ task' = [task EXCEPT ![g] = [@ EXCEPT !.pc = "device", !.adapter = "ok"]]
            /\ error' = error
       ELSE /\ task' = [task EXCEPT ![g] = [@ EXCEPT !.pc = "failed", !.adapter = "null"]]
            /\ error' = ErrAdapter
  /\ lastStep' = StepOf(g, {})
  /\ lastResize' = NoResize
  /\ UNCHANGED unitVars
  /\ UNCHANGED << envVars, canvasMounted, canvasVars, isInitialized, refVars,
                  generationRef, aliveRef, objVars, loopVars >>

SceneTexture(kind, g, w, h) ==
  [kind |-> kind, device |-> g, w |-> w, h |-> h, destroyed |-> FALSE]

\* `await adapter.requestDevice()` resumes: the device, the context, the canvas
\* size, the configuration, the resource factory, the scene textures and the
\* triangle renderer are created and stored, up to `await triangleRenderer.initialize`.
DeviceResolved(g, granted) ==
  /\ task[g].pc = "device"
  /\ IF granted
       THEN /\ deviceRef' = g
            /\ contextRef' = 1
            /\ canvasW' = Scaled(task[g].w)
            /\ canvasH' = Scaled(task[g].h)
            /\ configuredDevice' = g
            /\ resourcesRef' = g
            /\ resources' = [resources EXCEPT ![g] = [NoResources EXCEPT !.created = TRUE]]
            /\ textures' = textures \o
                 << SceneTexture("color", g, Scaled(task[g].w), Scaled(task[g].h)),
                    SceneTexture("depth", g, Scaled(task[g].w), Scaled(task[g].h)) >>
            /\ triangleRendererRef' = g
            /\ triangle' = [triangle EXCEPT ![g] = [NoTriangle EXCEPT !.created = TRUE]]
            /\ task' = [task EXCEPT ![g] =
                 [@ EXCEPT !.pc = "triInit", !.device = "ok",
                           !.color = Len(textures) + 1, !.depth = Len(textures) + 2]]
            /\ error' = error
            /\ lastStep' = StepOf(g, { "deviceRef", "contextRef", "canvasSize", "configure", "resourcesRef",
                   "sceneTargets", "triangleRendererRef" })
       ELSE /\ task' = [task EXCEPT ![g] = [@ EXCEPT !.pc = "failed", !.device = "denied"]]
            /\ error' = ErrDevice
            /\ lastStep' = StepOf(g, {})
            /\ UNCHANGED << deviceRef, contextRef, canvasVars, resourcesRef, resources,
                            textures, triangleRendererRef, triangle >>
  /\ lastResize' = NoResize
  /\ UNCHANGED unitVars
  /\ UNCHANGED << envVars, canvasMounted, isInitialized, modelRendererRef,
                  postRendererRef, generationRef, aliveRef, model, post, loopVars >>

\* ------------------------------------------------------------- render()
Cmd(op, n) == [op |-> op, n |-> n]

\* TriangleRenderer.render(renderPass): one non-indexed draw of 3 vertices
TriangleRender == << Cmd("triangle.draw", 3) >>

\* ModelRenderer.render that issues the non-indexed draw in every case
ModelRenderBoth(m) ==
  IF m.indexed THEN << Cmd("model.setIndexBuffer." \o m.indexFormat, m.indexCount),
                       Cmd("model.drawIndexed", m.indexCount),
                       Cmd("model.draw", m.vertexCount) >>
               ELSE << Cmd("model.draw", m.vertexCount) >>

\* ModelRenderer.render(renderPass): one indexed or one non-indexed draw
ModelRender(m) ==
  IF m.indexed THEN << Cmd("model.setIndexBuffer." \o m.indexFormat, m.indexCount),
                       Cmd("model.drawIndexed", m.indexCount) >>
               ELSE << Cmd("model.draw", m.vertexCount) >>

\* PostProcessingRenderer.render(encoder, currentTexture): one pass on the
\* destination, one 6-vertex draw sampling the texture of the bind group
PostRender(p) ==
  << Cmd("beginPostPass", 0), Cmd("post.setBindGroup", p.bindGroup),
     Cmd("post.draw", 6), Cmd("endPostPass", 0) >>

\* the scene part with scenePass.end() moved behind the post pass's texture
ScenePartLateEnd(r, m) ==
  << Cmd("triangle.update", 0), Cmd("model.update", 0),
     Cmd("createCommandEncoder", deviceRef),
     Cmd("beginScenePass", r.sceneColorTexture) >>
  \o TriangleRender \o ModelRender(m)
  \o << Cmd("getCurrentTexture", 0), Cmd("endScenePass", r.sceneColorTexture) >>

\* The commands of the try block of render() up to and including
\* context.getCurrentTexture(), in program order.
ScenePart(r, m) ==
  << Cmd("triangle.update", 0), Cmd("model.update", 0),
     Cmd("createCommandEncoder", deviceRef),
     Cmd("beginScenePass", r.sceneColorTexture) >>
  \o TriangleRender \o ModelRender(m)
  \o << Cmd("endScenePass", r.sceneColorTexture), Cmd("getCurrentTexture", 0) >>

\* the commands after the current texture without the post pass
PostPartBare(p) == << Cmd("finish", 0), Cmd("submit", 0) >>

\* The commands that follow a non-null current texture.
PostPart(p) == PostRender(p) \o << Cmd("finish", 0), Cmd("submit", 0) >>

\* A command throws when it dereferences a null of the objects it is given:
\* the triangle's buffers and pipeline before initialize has completed, the
\* scene textures of a WebGPUResources object that never received them.
Throws(c, r, t, m) ==
  \/ c.op \in { "triangle.update", "triangle.draw" } /\ ~t.pipeline
  \/ c.op \in { "model.update", "model.draw", "model.drawIndexed" } /\ ~m.isInitialized
  \/ c.op = "beginScenePass" /\ (r.sceneColorTexture = 0 \/ r.sceneDepthTexture = 0)

\* The index of the first command that throws (0: none); failAt is the command
\* the platform makes throw ("none": no command).
FirstThrow(cmds, failAt, r, t, m) ==
  LET bad == { i \in 1 .. Len(cmds) : cmds[i].op = failAt \/ Throws(cmds[i], r, t, m) }
  IN  IF bad = {} THEN 0 ELSE CHOOSE i \in bad : \A j \in bad : i <= j

\* One execution of render() of generation g over the given objects: the outcome
\* and the commands performed. texAvail: getCurrentTexture() returned a texture.
render(g, resS, postS, texAvail, failAt) ==
  IF Stale(g) THEN [outcome |-> "stale", steps |-> <<>>]
  ELSE IF \/ deviceRef = 0 \/ contextRef = 0 \/ triangleRendererRef = 0
          \/ modelRendererRef = 0 \/ postRendererRef = 0 \/ resourcesRef = 0
    THEN [outcome |-> "noRefs", steps |-> <<>>]
  ELSE
    LET r == resS[resourcesRef]
        t == triangle[triangleRendererRef]
        m == model[modelRendererRef]
        p == postS[postRendererRef]
        scene == ScenePart(r, m)
        all == scene \o PostPart(p)
        f == FirstThrow(all, failAt, r, t, m)
    IN  IF f # 0 /\ (f <= Len(scene) \/ texAvail)
          THEN [outcome |-> "error", steps |-> SubSeq(all, 1, f - 1)]
        ELSE IF ~texAvail
          THEN [outcome |-> "skipped", steps |-> scene]
        ELSE [outcome |-> "submitted", steps |-> all]

\* render() that requests the next frame without storing its handle
RenderEffectsDropsHandle(g, run, pending) ==
  /\ lastFrame' = [gen |-> g, cur |-> generationRef, alive |-> aliveRef,
                   outcome |-> run.outcome, steps |-> run.steps]
  /\ IF run.outcome \in { "submitted", "skipped" }
       THEN /\ animationIdRef' = animationIdRef
            /\ scheduled' = pending \cup { [id |-> nextHandle, gen |-> g] }
            /\ nextHandle' = nextHandle + 1
       ELSE /\ scheduled' = pending
            /\ UNCHANGED << animationIdRef, nextHandle >>
  /\ submitted' = IF run.outcome = "submitted" THEN submitted \cup {g} ELSE submitted
  /\ IF run.outcome = "error"
       THEN /\ error' = ErrRender
            /\ renderFailed' = renderFailed \cup {g}
       ELSE UNCHANGED << error, renderFailed >>

\* render() whose catch block falls through to requestAnimationFrame
RenderEffectsRetry(g, run, pending) ==
  /\ lastFrame' = [gen |-> g, cur |-> generationRef, alive |-> aliveRef,
                   outcome |-> run.outcome, steps |-> run.steps]
  /\ IF run.outcome \in { "submitted", "skipped", "error" }
       THEN /\ animationIdRef' = nextHandle
            /\ scheduled' = pending \cup { [id |-> nextHandle, gen |-> g] }
            /\ nextHandle' = nextHandle + 1
       ELSE /\ scheduled' = pending
            /\ UNCHANGED << animationIdRef, nextHandle >>
  /\ submitted' = IF run.outcome = "submitted" THEN submitted \cup {g} ELSE submitted
  /\ IF run.outcome = "error"
       THEN /\ error' = ErrRender
            /\ renderFailed' = renderFailed \cup {g}
       ELSE UNCHANGED << error, renderFailed >>

\* render() that returns on a missing current texture without requesting a frame
RenderEffectsSkipStops(g, run, pending) ==
  /\ lastFrame' = [gen |-> g, cur |-> generationRef, alive |-> aliveRef,
                   outcome |-> run.outcome, steps |-> run.steps]
  /\ IF run.outcome = "submitted"
       THEN /\ animationIdRef' = nextHandle
            /\ scheduled' = pending \cup { [id |-> nextHandle, gen |-> g] }
            /\ nextHandle' = nextHandle + 1
       ELSE /\ scheduled' = pending
            /\ UNCHANGED << animationIdRef, nextHandle >>
  /\ submitted' = IF run.outcome = "submitted" THEN submitted \cup {g} ELSE submitted
  /\ IF run.outcome = "error"
       THEN /\ error' = ErrRender
            /\ renderFailed' = renderFailed \cup {g}
       ELSE UNCHANGED << error, renderFailed >>

\* What one execution of render() leaves behind: the error of the catch block,
\* the next requested frame, the submission.
RenderEffects(g, run, pending) ==
  /\ lastFrame' = [gen |-> g, cur |-> generationRef, alive |-> aliveRef,
                   outcome |-> run.outcome, steps |-> run.steps]
  /\ IF run.outcome \in { "submitted", "skipped" }
       THEN /\ animationIdRef' = nextHandle
            /\ scheduled' = pending \cup { [id |-> nextHandle, gen |-> g] }
            /\ nextHandle' = nextHandle + 1
       ELSE /\ scheduled' = pending
            /\ UNCHANGED << animationIdRef, nextHandle >>
  /\ submitted' = IF run.outcome = "submitted" THEN submitted \cup {g} ELSE submitted
  /\ IF run.outcome = "error"
       THEN /\ error' = ErrRender
            /\ renderFailed' = renderFailed \cup {g}
       ELSE UNCHANGED << error, renderFailed >>

\* the commands the platform can make throw ("none": no command throws)
FailPoints == { "none", "triangle.update", "beginScenePass", "beginPostPass", "submit" }

\* a frame whose providers destroy the scene color texture they rendered to
FrameDestroysTargets(cb, texAvail, failAt) ==
  /\ cb \in scheduled
  /\ nextHandle <= MaxFrames
  /\ RenderEffects(cb.gen, render(cb.gen, resources, post, texAvail, failAt),
                   scheduled \ {cb})
  /\ lastResize' = NoResize
  /\ UNCHANGED unitVars
  /\ textures' = [i \in 1 .. Len(textures) |-> [textures[i] EXCEPT !.destroyed = TRUE]]
  /\ UNCHANGED << envVars, canvasMounted, canvasVars, isInitialized, refVars,
                  generationRef, aliveRef, task, resources, triangle, model, post,
                  lastStep >>

\* A requestAnimationFrame callback runs.
Frame(cb, texAvail, failAt) ==
  /\ cb \in scheduled
  /\ nextHandle <= MaxFrames
  /\ RenderEffects(cb.gen, render(cb.gen, resources, post, texAvail, failAt),
                   scheduled \ {cb})
  /\ lastResize' = NoResize
  /\ UNCHANGED unitVars
  /\ UNCHANGED << envVars, canvasMounted, canvasVars, isInitialized, refVars,
                  generationRef, aliveRef, task, objVars, lastStep >>

\* ------------------------------------------- initWebGPU: the three providers
\* `await triangleRenderer.initialize(...)` resumes: the shaders were fetched or
\* a fetch failed; then the liveness/generation check, then the model renderer
\* is created and stored, up to `await modelRenderer.initialize`.
TriInitResolved(g, shadersOk) ==
  /\ task[g].pc = "triInit"
  /\ IF ~shadersOk
       THEN /\ task' = [task EXCEPT ![g] = [@ EXCEPT !.pc = "failed"]]
            /\ error' = ErrShader
            /\ lastStep' = StepOf(g, {})
            /\ UNCHANGED << triangle, modelRendererRef, model >>
       ELSE /\ triangle' = [triangle EXCEPT ![g] = [@ EXCEPT !.pipeline = TRUE]]
            /\ error' = error
            /\ IF Stale(g)
                 THEN /\ task' = [task EXCEPT ![g] = [@ EXCEPT !.pc = "abandoned"]]
                      /\ lastStep' = StepOf(g, {})
                      /\ UNCHANGED << modelRendererRef, model >>
                 ELSE /\ task' = [task EXCEPT ![g] = [@ EXCEPT !.pc = "modelInit"]]
                      /\ modelRendererRef' = g
                      /\ model' = [model EXCEPT ![g] = [NoModel EXCEPT !.created = TRUE]]
                      /\ lastStep' = StepOf(g, { "modelRendererRef" })
  /\ lastResize' = NoResize
  /\ UNCHANGED unitVars
  /\ UNCHANGED << envVars, canvasMounted, canvasVars, isInitialized, deviceRef,
                  contextRef, resourcesRef, triangleRendererRef, postRendererRef,
                  generationRef, aliveRef, resources, post, textures, loopVars >>

\* ModelRenderer.initialize that swallows a failed shader fetch
ModelInitializeSwallows(m, d, fetchOk, shadersOk) ==
  LET mesh == extractMesh(d) IN
  IF ~fetchOk THEN [error |-> ErrFetchModel, model |-> m]
  ELSE IF mesh.error # "" THEN [error |-> mesh.error, model |-> m]
  ELSE [error |-> "",
        model |-> [m EXCEPT !.indexed = (mesh.indexFormat # "none"),
                            !.indexFormat = mesh.indexFormat,
                            !.vertexCount = mesh.vertexCount,
                            !.indexCount = mesh.indexCount,
                            !.isInitialized = shadersOk]]

\* ModelRenderer.initialize: loadModel, extractMesh, loadTexture (which falls
\* back to the default texture and never throws), the buffers, the shaders.
ModelInitialize(m, d, fetchOk, shadersOk) ==
  LET mesh == extractMesh(d) IN
  IF ~fetchOk THEN [error |-> ErrFetchModel, model |-> m]
  ELSE IF mesh.error # "" THEN [error |-> mesh.error, model |-> m]
  ELSE LET loaded == [m EXCEPT !.indexed = (mesh.indexFormat # "none"),
                               !.indexFormat = mesh.indexFormat,
                               !.vertexCount = mesh.vertexCount,
                               !.indexCount = mesh.indexCount]
       IN  IF ~shadersOk THEN [error |-> ErrShader, model |-> loaded]
           ELSE [error |-> "", model |-> [loaded EXCEPT !.isInitialized = TRUE]]

\* `await modelRenderer.initialize(...)` resumes; then the check, then the
\* post-processing renderer is created and stored, up to `await postRenderer.initialize`
\* (which stores the scene color texture before its first await).
ModelInitResolved(g, d, fetchOk, shadersOk) ==
  LET res == ModelInitialize(model[g], d, fetchOk, shadersOk)
      doc == IF fetchOk THEN d.name ELSE "none"
  IN
  /\ task[g].pc = "modelInit"
  /\ model' = [model EXCEPT ![g] = res.model]
  /\ IF res.error # ""
       THEN /\ task' = [task EXCEPT ![g] = [@ EXCEPT !.pc = "failed", !.doc = doc]]
            /\ error' = res.error
            /\ lastStep' = StepOf(g, {})
            /\ UNCHANGED << postRendererRef, post >>
       ELSE /\ error' = error
            /\ IF Stale(g)
                 THEN /\ task' = [task EXCEPT ![g] =
                           [@ EXCEPT !.pc = "abandoned", !.doc = doc]]
                      /\ lastStep' = StepOf(g, {})
                      /\ UNCHANGED << postRendererRef, post >>
                 ELSE /\ task' = [task EXCEPT ![g] =
                           [@ EXCEPT !.pc = "postInit", !.doc = doc]]
                      /\ postRendererRef' = g
                      /\ post' = [post EXCEPT ![g] =
                           [NoPost EXCEPT !.created = TRUE,
                                          !.sceneColorTexture = task[g].color]]
                      /\ lastStep' = StepOf(g, { "postRendererRef" })
  /\ lastResize' = NoResize
  /\ UNCHANGED unitVars
  /\ UNCHANGED << envVars, canvasMounted, canvasVars, isInitialized, deviceRef,
                  contextRef, resourcesRef, triangleRendererRef, modelRendererRef,
                  generationRef, aliveRef, resources, triangle, textures, loopVars >>

\* `await postRenderer.initialize(...)` resumes; then the check, then the scene
\* textures are stored on resourcesRef.current, render() runs once and
\* setIsInitialized(true) is called.
PostInitResolved(g, shadersOk, texAvail, failAt) ==
  LET postN == [post EXCEPT ![g] = [@ EXCEPT !.bindGroup = post[g].sceneColorTexture,
                                             !.isInitialized = TRUE]]
      resN == [resources EXCEPT ![resourcesRef] =
                 [@ EXCEPT !.sceneColorTexture = task[g].color,
                           !.sceneDepthTexture = task[g].depth]]
  IN
  /\ task[g].pc = "postInit"
  /\ nextHandle <= MaxFrames
  /\ IF ~shadersOk
       THEN /\ task' = [task EXCEPT ![g] = [@ EXCEPT !.pc = "failed"]]
            /\ error' = ErrShader
            /\ lastStep' = StepOf(g, {})
            /\ UNCHANGED << post, resources, isInitialized, loopVars >>
       ELSE /\ post' = postN
            /\ IF Stale(g)
                 THEN /\ task' = [task EXCEPT ![g] = [@ EXCEPT !.pc = "abandoned"]]
                      /\ lastStep' = StepOf(g, {})
                      /\ UNCHANGED << error, resources, isInitialized, loopVars >>
                 ELSE /\ task' = [task EXCEPT ![g] = [@ EXCEPT !.pc = "running"]]
                      /\ resources' = resN
                      /\ lastStep' = StepOf(g, { "sceneTextures" })
                      /\ RenderEffects(g, render(g, resN, postN, texAvail, failAt),
                                       scheduled)
                      /\ isInitialized' = TRUE
  /\ lastResize' = NoResize
  /\ UNCHANGED unitVars
  /\ UNCHANGED << envVars, canvasMounted, canvasVars, refVars, generationRef, aliveRef,
                  triangle, model, textures >>

\* ------------------------------------------------------------------ resize
\* updateSceneTexture that stores the texture before its checks
updateSceneTextureEager(p, tex) ==
  IF tex = 0 THEN p
  ELSE [p EXCEPT !.sceneColorTexture = tex,
                 !.bindGroup = IF p.isInitialized THEN tex ELSE @]

\* PostProcessingRenderer.updateSceneTexture(newSceneColorTexture), reached
\* through PostProcessingRenderer.resize
updateSceneTexture(p, tex) ==
  IF tex = 0 \/ ~p.isInitialized THEN p
  ELSE [p EXCEPT !.sceneColorTexture = tex, !.bindGroup = tex]

\* the condition under which resize(newWidth, newHeight) does anything
ResizeGuard ==
  /\ canvasMounted
  /\ deviceRef # 0
  /\ triangleRendererRef # 0 /\ triangle[triangleRendererRef].isInitialized
  /\ modelRendererRef # 0 /\ model[modelRendererRef].isInitialized
  /\ postRendererRef # 0 /\ post[postRendererRef].isInitialized

Destroy(texs, id) ==
  IF id = 0 THEN texs ELSE [texs EXCEPT ![id] = [@ EXCEPT !.destroyed = TRUE]]

\* a resize that re-runs the lifecycle by minting a generation
ResizeReinit(w, h) ==
  /\ isInitialized
  /\ generationRef < MaxGen
  /\ generationRef' = generationRef + 1
  /\ lastResize' = << w, h >>
  /\ UNCHANGED unitVars
  /\ UNCHANGED << envVars, canvasMounted, canvasVars, error, isInitialized, refVars,
                  aliveRef, task, objVars, loopVars, lastStep >>

\* resize(newWidth, newHeight) of the hook; its one caller, the resize effect of
\* WebGPUTriangle, calls it only when the isInitialized state is true
Resize(w, h) ==
  /\ isInitialized
  /\ ~ResizeGuard \/ Len(textures) + 2 <= MaxTex
  /\ IF ResizeGuard
       THEN LET r == resources[resourcesRef]
                kept == Destroy(Destroy(textures, r.sceneColorTexture),
                                r.sceneDepthTexture)
                color == Len(textures) + 1
                depth == Len(textures) + 2
            IN  /\ canvasW' = Scaled(w)
                /\ canvasH' = Scaled(h)
                /\ textures' = kept \o
                     << SceneTexture("color", resourcesRef, Scaled(w), Scaled(h)),
                        SceneTexture("depth", resourcesRef, Scaled(w), Scaled(h)) >>
                /\ resources' = [resources EXCEPT ![resourcesRef] =
                     [@ EXCEPT !.sceneColorTexture = color, !.sceneDepthTexture = depth]]
                /\ post' = [post EXCEPT ![postRendererRef] = updateSceneTexture(@, color)]
       ELSE UNCHANGED << canvasW, canvasH, textures, resources, post >>
  /\ lastResize' = << w, h >>
  /\ UNCHANGED unitVars
  /\ UNCHANGED << envVars, canvasMounted, configuredDevice, error, isInitialized,
                  refVars, generationRef, aliveRef, task, triangle, model, loopVars,
                  lastStep >>

\* ----------------------------------------------------------- specification
Next ==
  \/ \E s \in Sizes : Start(s[1], s[2])
  \/ Teardown
  \/ CommitErrorView
  \/ \E g \in Gens, ok \in BOOLEAN : AdapterResolved(g, ok)
  \/ \E g \in Gens, granted \in BOOLEAN : DeviceResolved(g, granted)
  \/ \E g \in Gens, ok \in BOOLEAN : TriInitResolved(g, ok)
  \/ \E g \in Gens, d \in Docs, fetchOk \in BOOLEAN, ok \in BOOLEAN :
       ModelInitResolved(g, d, fetchOk, ok)
  \/ \E g \in Gens, ok \in BOOLEAN, tex \in BOOLEAN, failAt \in FailPoints :
       PostInitResolved(g, ok, tex, failAt)
  \/ \E cb \in scheduled, tex \in BOOLEAN, failAt \in FailPoints : Frame(cb, tex, failAt)
  \/ \E s \in ResizeSizes : Resize(s[1], s[2])

Spec == Init /\ [][Next]_vars

\* ================================================================= claims
\* generation g is Running: it is the live generation and its frame loop started
Running(g) == g = generationRef /\ aliveRef /\ task[g].pc = "running"

\* the number of commands of a frame whose op is in ops
Count(steps, ops) == Cardinality({ i \in 1 .. Len(steps) : steps[i].op \in ops })

\* the position of the first command of a frame with the given op (0: absent)
Pos(steps, op) ==
  LET at == { i \in 1 .. Len(steps) : steps[i].op = op }
  IN  IF at = {} THEN 0 ELSE CHOOSE i \in at : \A j \in at : i <= j

DrawOps == { "triangle.draw", "model.draw", "model.drawIndexed", "post.draw" }

\* the draw commands of a frame between the commands first and last
DrawsBetween(steps, first, last) ==
  { i \in 1 .. Len(steps) :
      /\ steps[i].op \in DrawOps
      /\ Pos(steps, first) # 0 /\ Pos(steps, first) < i
      /\ Pos(steps, last) # 0 /\ i < Pos(steps, last) }

\* ---------------------------------------------------------------------- C1
\* C1 (as claimed): a step of initWebGPU that resumes after its generation was
\* superseded stores nothing: not the device, the context, its configuration,
\* the canvas size, the resource factory, a provider reference, and it
\* allocates no scene targets.
C1_SupersededInstallsNothing ==
  lastStep.superseded => lastStep.installs = {}

\* ---------------------------------------------------------------------- C2
\* C2: after teardown and a new start, every pending frame callback belongs to
\* the live current generation, so at most one generation has a frame loop, and
\* no execution of render() of a torn-down or superseded generation records or
\* submits anything.
C2_OneLoop ==
  /\ \A cb \in scheduled : aliveRef /\ cb.gen = generationRef
  /\ Cardinality({ cb.gen : cb \in scheduled }) <= 1
  /\ lastFrame.steps # <<>> => lastFrame.alive /\ lastFrame.gen = lastFrame.cur

\* a second generation runs its loop after the first one, torn down, ran its own
C2_Witness ==
  /\ generationRef = 2 /\ Running(2)
  /\ task[1].pc = "running" /\ 1 \in submitted
  /\ lastFrame.gen = 2 /\ lastFrame.outcome = "submitted"

\* ---------------------------------------------------------------------- C3
\* C3 (as claimed): after resize(w, h) issued while Running, the canvas and both
\* scene textures have the scaled size of (w, h), and the post-processing
\* renderer samples the current, not destroyed, scene color texture.
C3_ResizeReallocates ==
  (lastResize # NoResize /\ Running(generationRef) /\ resourcesRef # 0
     /\ postRendererRef # 0) =>
    LET r == resources[resourcesRef]
        p == post[postRendererRef]
    IN  /\ canvasW = Scaled(lastResize[1]) /\ canvasH = Scaled(lastResize[2])
        /\ r.sceneColorTexture # 0 /\ r.sceneDepthTexture # 0
        /\ textures[r.sceneColorTexture].w = Scaled(lastResize[1])
        /\ textures[r.sceneColorTexture].h = Scaled(lastResize[2])
        /\ textures[r.sceneDepthTexture].w = Scaled(lastResize[1])
        /\ textures[r.sceneDepthTexture].h = Scaled(lastResize[2])
        /\ p.bindGroup = r.sceneColorTexture
        /\ ~textures[p.bindGroup].destroyed

\* ---------------------------------------------------------------------- C4
\* a submitted frame holds exactly one scene pass with two draws (the triangle,
\* then the mesh) and one post pass with one draw of 6 vertices
TwoPassFrame(steps) ==
  /\ Count(steps, { "beginScenePass" }) = 1 /\ Count(steps, { "endScenePass" }) = 1
  /\ Count(steps, { "beginPostPass" }) = 1 /\ Count(steps, { "endPostPass" }) = 1
  /\ Count(steps, DrawOps) = 3
  /\ Cardinality(DrawsBetween(steps, "beginScenePass", "endScenePass")) = 2
  /\ Pos(steps, "triangle.draw") < Pos(steps, "endScenePass")
  /\ steps[Pos(steps, "triangle.draw")].n = 3
  /\ DrawsBetween(steps, "beginPostPass", "endPostPass") = { Pos(steps, "post.draw") }
  /\ steps[Pos(steps, "post.draw")].n = 6
  /\ Count(steps, { "submit" }) = 1

\* the first and only start, with width = 800 and height = 600
SingleStart800x600 ==
  generationRef = 1 /\ task[1].w = 800 /\ task[1].h = 600

C5_RenderFailureHalts ==
  \A g \in renderFailed :
    /\ error # ""
    /\ \A cb \in scheduled : cb.gen # g
    /\ lastFrame.gen = g => lastFrame.outcome = "error" /\ Count(lastFrame.steps, { "submit" }) = 0

C5_Witness ==
  /\ renderFailed # {} /\ lastFrame.outcome = "error" /\ error = ErrRender
  /\ Pos(lastFrame.steps, "endPostPass") # 0 /\ lastFrame.gen \in submitted

\* ---------------------------------------------------------------------- C6
\* C6: without navigator.gpu no adapter or device is ever requested and start
\* fails with the unsupported error; a null adapter or a denied device makes
\* start fail with an error set; in all three cases that generation starts no
\* frame loop and submits nothing.
C6_AcquisitionFailures ==
  /\ ~hasGpu =>
       /\ \A g \in Gens : /\ task[g].pc \in { "idle", "failed" }
                          /\ task[g].adapter = "none" /\ task[g].device = "none"
                          /\ task[g].pc = "failed" => error = ErrUnsupported
       /\ deviceRef = 0 /\ submitted = {} /\ scheduled = {} /\ ~isInitialized
  /\ \A g \in Gens :
       (task[g].adapter = "null" \/ task[g].device = "denied") =>
         /\ task[g].pc = "failed" /\ error # ""
         /\ g \notin submitted /\ \A cb \in scheduled : cb.gen # g
         /\ task[g].adapter = "null" => task[g].device = "none"

C6_Witness ==
  \E g \in Gens : task[g].adapter = "ok" /\ task[g].device = "denied"
                  /\ error = ErrDevice /\ task[g].pc = "failed"

\* ---------------------------------------------------------------------- C7
\* an execution of render() happened in this step
FrameRan == lastFrame' # lastFrame \/ nextHandle' # nextHandle

\* C7: an execution of render() that finds no current texture submits nothing,
\* leaves the error as it was, and requests the next frame.
C7_NoTextureSkips ==
  [][(FrameRan /\ lastFrame'.outcome = "skipped") =>
       /\ Count(lastFrame'.steps, { "submit", "finish", "beginPostPass" }) = 0
       /\ submitted' = submitted
       /\ error' = error /\ renderFailed' = renderFailed
       /\ animationIdRef' = nextHandle
       /\ [id |-> nextHandle, gen |-> lastFrame'.gen] \in scheduled']_vars

C7_Witness ==
  /\ lastFrame.outcome = "skipped" /\ error = ""
  /\ \E cb \in scheduled : cb.gen = lastFrame.gen /\ cb.id = animationIdRef
  /\ lastFrame.gen \in submitted

C9_ResizeKeepsGeneration ==
  [][(lastResize' # NoResize) =>
       /\ UNCHANGED << envVars, canvasMounted, configuredDevice, error, isInitialized,
                       refVars, generationRef, aliveRef, task, triangle, model,
                       loopVars, lastStep >>
       /\ \A g \in Gens : /\ post'[g].created = post[g].created
                          /\ post'[g].isInitialized = post[g].isInitialized
                          /\ resources'[g].created = resources[g].created]_vars

C9_Witness ==
  /\ lastResize = << 401, 301 >> /\ Running(generationRef)
  /\ task[generationRef].w = 800 /\ generationRef \in submitted

\* --------------------------------------------------------------------- C10
\* the stages of a frame, in the order claimed
StageOrder ==
  << "triangle.update", "model.update", "createCommandEncoder", "beginScenePass",
     "triangle.draw", "model.draw", "endScenePass", "getCurrentTexture",
     "beginPostPass", "post.draw", "endPostPass", "submit" >>

\* the stage a command belongs to ("" for a command that is no stage of its own)
StageOf(c) ==
  IF c.op = "model.drawIndexed" THEN "model.draw"
  ELSE IF c.op \in { StageOrder[i] : i \in 1 .. Len(StageOrder) } THEN c.op
  ELSE ""

IsStage(c) == StageOf(c) # ""

\* the stages of a frame's commands, in the order they were performed
Stages(steps) ==
  LET sel == SelectSeq(steps, IsStage) IN [i \in 1 .. Len(sel) |-> StageOf(sel[i])]

\* C10: the commands of every execution of render() are a prefix of: update of
\* the triangle, update of the mesh, command encoder, scene pass begun, triangle
\* draw, mesh draw, scene pass ended, current texture, post pass begun, post
\* draw, post pass ended, submit; and the post pass binds and samples the
\* scene color texture only after the scene pass has ended.
C10_FrameOrder ==
  LET st == Stages(lastFrame.steps) IN
  /\ Len(st) <= Len(StageOrder)
  /\ st = SubSeq(StageOrder, 1, Len(st))
  /\ \A i \in 1 .. Len(lastFrame.steps) :
       lastFrame.steps[i].op \in { "beginPostPass", "post.setBindGroup", "post.draw" } =>
         /\ Pos(lastFrame.steps, "endScenePass") # 0
         /\ Pos(lastFrame.steps, "endScenePass") < i
         /\ Pos(lastFrame.steps, "beginScenePass") < Pos(lastFrame.steps, "endScenePass")

C10_Witness ==
  /\ lastFrame.outcome = "submitted"
  /\ Stages(lastFrame.steps) = StageOrder
  /\ Pos(lastFrame.steps, "model.drawIndexed") # 0

\* --------------------------------------------------------------------- C11
\* generation g was started, and with a width or height that is not positive
InvalidStart(g) == task[g].pc # "idle" /\ (task[g].w <= 0 \/ task[g].h <= 0)

\* what a start with an invalid size leaves behind: initWebGPU has returned,
\* nothing was requested, created, scheduled or submitted for the generation
Deferred(g) ==
  /\ task[g].pc = "returned"
  /\ task[g].adapter = "none" /\ task[g].device = "none"
  /\ ~resources[g].created /\ ~triangle[g].created /\ ~model[g].created /\ ~post[g].created
  /\ \A i \in 1 .. Len(textures) : textures[i].device # g
  /\ \A cb \in scheduled : cb.gen # g
  /\ g \notin submitted /\ g \notin renderFailed

\* C11 (as claimed): every start with a zero or negative width or height is
\* deferred silently: it never fails, and when it is the first start no error
\* is shown.
C11_InvalidSizeNeverFails ==
  \A g \in Gens : InvalidStart(g) =>
    /\ Deferred(g)
    /\ (generationRef = 1 => error = "")

\* C11 (amended): where the platform has WebGPU, a start with a zero or
\* negative width or height returns without requesting an adapter or a device,
\* without creating a resource and without reaching Running, and the start
\* itself does not change the error; while every start so far had an invalid
\* size no error is shown, and the first start with a valid size after them
\* goes on to request the adapter.
C11_InvalidSizeDeferred ==
  /\ [](hasGpu =>
         \A g \in Gens :
           /\ InvalidStart(g) => Deferred(g)
           /\ (\A k \in 1 .. g : InvalidStart(k)) /\ generationRef = g => error = ""
           /\ (\A k \in 1 .. (g - 1) : InvalidStart(k)) /\ task[g].pc # "idle"
                /\ ~InvalidStart(g) => task[g].pc # "returned")
  /\ [][(hasGpu /\ generationRef' # generationRef /\ InvalidStart(generationRef)')
          => error' = error /\ UNCHANGED << refVars, canvasVars, objVars, loopVars >>]_vars

\* a start at width 0, then a start at 800x600 that reached Running and submitted
C11_Witness ==
  /\ hasGpu /\ generationRef = 2
  /\ InvalidStart(1) /\ task[1].pc = "returned"
  /\ Running(2) /\ task[2].w = 800 /\ 2 \in submitted /\ error = ""

\* --------------------------------------------------------------------- C12
\* the providers generation g has constructed and not destroyed
LiveProviders(g) ==
  { k \in { "triangle", "model", "post" } :
      LET p == IF k = "triangle" THEN triangle[g]
               ELSE IF k = "model" THEN model[g] ELSE post[g]
      IN  p.created /\ ~p.destroyed }

\* C12 (as claimed): once a generation has been torn down or superseded, every
\* provider it constructed has been destroyed, so that at most one generation
\* has providers that are not destroyed.
C12_PreviousGenerationDestroyed ==
  /\ \A g \in Gens : (g # generationRef \/ ~aliveRef) => LiveProviders(g) = {}
  /\ Cardinality({ g \in Gens : LiveProviders(g) # {} }) <= 1

\* --------------------------------------------------------------------- C13
\* the textures that are the current Scene Targets of each resource factory
SceneTargets == [g \in Gens |-> << resources[g].sceneColorTexture,
                                   resources[g].sceneDepthTexture >>]

\* the step is a resumed step of initWebGPU (the position of a task moves) that
\* performed orchestrator stores of the given kind
StartStored(kind) == task' # task /\ kind \in lastStep'.installs

\* C13: the set of allocated scene textures and their destroyed flags change
\* only in the step of start that allocates them and in resize; which textures
\* are the current Scene Targets changes only in the step of start that stores
\* them and in resize; the device, the context and its configuration change only
\* in the step of start that acquires the device. In particular a frame (update,
\* draw and render of the three providers) and the completion of a provider's
\* initialize change none of them.
C13_ProvidersKeepSharedTargets ==
  [][/\ textures' # textures => StartStored("sceneTargets") \/ lastResize' # NoResize
     /\ SceneTargets' # SceneTargets => StartStored("sceneTextures") \/ lastResize' # NoResize
     /\ << deviceRef, contextRef, configuredDevice >>' # << deviceRef, contextRef, configuredDevice >>
          => StartStored("deviceRef")
     /\ (lastFrame' # lastFrame \/ scheduled' # scheduled \/ nextHandle' # nextHandle)
          => /\ textures' = textures
             /\ UNCHANGED << deviceRef, contextRef, configuredDevice >>
             /\ SceneTargets' # SceneTargets => StartStored("sceneTextures")]_vars

\* a frame was rendered and submitted over scene targets that are still alive
C13_Witness ==
  /\ lastFrame.outcome = "submitted" /\ nextHandle > 2
  /\ Running(generationRef)
  /\ LET r == resources[resourcesRef] IN
       /\ r.sceneColorTexture # 0 /\ ~textures[r.sceneColorTexture].destroyed
       /\ ~textures[r.sceneDepthTexture].destroyed
       /\ Pos(lastFrame.steps, "beginScenePass") # 0

\* ================================================== provider-level harness
\* The functions and the provider below are applied on their own, outside the
\* hook, to inputs drawn in the initial state.

\* POSITION arrays (0, 1 and 2 vertices), TEXCOORD_0 arrays, index arrays
PositionArrays == { <<>>, <<0, 0, 0>>, <<0, 0, 0, 1, 0, 0>> }
TexcoordArrays == { <<>>, <<5, 7>>, <<5, 7, 9, 11>> }
IndexArrays == { <<>>, <<0, 1, 0>>, <<0, 65535, 1>>, <<0, 65536, 1>>, <<65534>>, <<70000, 1>> }

\* what a parsed glTF document can look like: no primitive without a mesh, no
\* attribute without a primitive, one texcoord pair per position triple
WellFormed(d) ==
  /\ d.meshes = 0 => d.primitives = 0
  /\ d.primitives = 0 => ~d.hasPosition /\ ~d.hasTexcoord /\ ~d.hasIndices
  /\ ~d.hasPosition => d.positions = <<>>
  /\ ~d.hasTexcoord => d.texcoords = <<>>
  /\ d.hasTexcoord /\ d.hasPosition => Len(d.texcoords) * 3 = Len(d.positions) * 2
  /\ ~d.hasIndices => d.indices = <<>>

UnitDocs ==
  { d \in [meshes : 0 .. 2, primitives : 0 .. 1, hasPosition : BOOLEAN,
           positions : PositionArrays, hasTexcoord : BOOLEAN, texcoords : TexcoordArrays,
           hasIndices : BOOLEAN, indices : IndexArrays] : WellFormed(d) }

\* what loadTexture finds in the document: a material with a base color
\* texture, a first texture of the file, and of the texture it picks the mime
\* type ("" is none), the image bytes and whether createImageBitmap decodes them
TextureInputs ==
  [material : BOOLEAN, first : BOOLEAN, mime : { "", "image/png", "image/ktx2" },
   bytes : { "null", "empty", "data" }, decodes : BOOLEAN]

\* _createDefaultTexture: a 2x2 rgba8unorm texture written with 16 bytes
DefaultTexture ==
  [raised |-> FALSE, kind |-> "default", w |-> 2, h |-> 2, format |-> "rgba8unorm",
   data |-> << 255, 0, 0, 255,  0, 255, 0, 255,  0, 0, 255, 255,  255, 255, 0, 255 >>]

\* loadTexture that lets the rejection of createImageBitmap escape
loadTextureRaises(t) ==
  LET mimeType == IF t.mime = "" THEN "image/png" ELSE t.mime IN
  IF ~t.material /\ ~t.first THEN DefaultTexture
  ELSE IF t.bytes \in { "null", "empty" } THEN DefaultTexture
  ELSE IF mimeType = "image/ktx2" THEN DefaultTexture
  ELSE IF ~t.decodes THEN [DefaultTexture EXCEPT !.raised = TRUE, !.kind = "none"]
  ELSE [raised |-> FALSE, kind |-> "decoded", w |-> 4, h |-> 4,
        format |-> "rgba8unorm-srgb", data |-> <<>>]

\* loadTexture(document, resources, device)
loadTexture(t) ==
  LET mimeType == IF t.mime = "" THEN "image/png" ELSE t.mime IN
  IF ~t.material /\ ~t.first THEN DefaultTexture
  ELSE IF t.bytes \in { "null", "empty" } THEN DefaultTexture
  ELSE IF mimeType = "image/ktx2" THEN DefaultTexture
  ELSE IF ~t.decodes THEN DefaultTexture
  ELSE [raised |-> FALSE, kind |-> "decoded", w |-> 4, h |-> 4,
        format |-> "rgba8unorm-srgb", data |-> <<>>]

\* fullscreen.vert: the two constant arrays, indexed by vertex_index + 1
FullscreenPos == << <<-1, -1>>, <<1, -1>>, <<-1, 1>>, <<-1, 1>>, <<1, -1>>, <<1, 1>> >>
FullscreenUv == << <<0, 1>>, <<1, 1>>, <<0, 0>>, <<0, 0>>, <<1, 1>>, <<1, 0>> >>

\* main with the uv taken from the position without the vertical flip
fullscreenMainUnflipped(vid) ==
  [position |-> FullscreenPos[vid + 1] \o << 0, 1 >>,
   uv |-> << (FullscreenPos[vid + 1][1] + 1) \div 2, (FullscreenPos[vid + 1][2] + 1) \div 2 >>]

\* main(vid) of fullscreen.vert
fullscreenMain(vid) ==
  [position |-> FullscreenPos[vid + 1] \o << 0, 1 >>, uv |-> FullscreenUv[vid + 1]]

ErrSceneRequired == "Scene color texture is required for post-processing"
ErrNewSceneRequired == "New scene color texture is required"
ErrLayout == "Bind group layout not initialized"

\* what updateSceneTexture(newSceneColorTexture) throws ("": nothing); the
\* sampler and the bind group layout exist exactly when initialize has completed
updateSceneTextureError(p, tex) ==
  IF tex = 0 THEN ErrNewSceneRequired
  ELSE IF ~p.isInitialized THEN ErrLayout
  ELSE ""

\* the scene color textures a stand-alone provider is given (0 is null)
UnitTextures == 0 .. 2

UnitInputs ==
  { [kind |-> "doc", doc |-> d] : d \in UnitDocs }
  \cup { [kind |-> "texture", tex |-> t] : t \in TextureInputs }
  \cup { [kind |-> "vertex", vid |-> v] : v \in 0 .. 5 }
  \cup { [kind |-> "post"] }

UnitInit ==
  /\ HookInit
  /\ hasGpu
  /\ uIn \in UnitInputs
  /\ uOut = IF uIn.kind = "post" THEN [kind |-> "post", pc |-> "constructed", error |-> ""]
            ELSE NoOutput
  /\ uPost = IF uIn.kind = "post" THEN [NoPost EXCEPT !.created = TRUE] ELSE NoPost
  /\ uRebind = NoRebind

\* extractMesh(document), then the buffers of ModelRenderer.initialize and the
\* commands of ModelRenderer.render
UnitExtract ==
  /\ uIn.kind = "doc" /\ uOut = NoOutput
  /\ LET res == ModelInitialize([NoModel EXCEPT !.created = TRUE], uIn.doc, TRUE, TRUE)
     IN  uOut' = [kind |-> "mesh", mesh |-> extractMesh(uIn.doc), model |-> res.model,
                  draw |-> IF res.error = "" THEN ModelRender(res.model) ELSE <<>>]
  /\ UNCHANGED << hookVars, uIn, uPost, uRebind >>

\* ModelRenderer.render(renderPass) on the provider initialize has produced: it
\* calls methods of the pass and assigns no field of the provider
UnitDraw ==
  /\ uIn.kind = "doc" /\ uOut.kind = "mesh" /\ uOut.mesh.error = ""
  /\ uOut' = [uOut EXCEPT !.kind = "drawn", !.draw = ModelRender(uOut.model)]
  /\ UNCHANGED << hookVars, uIn, uPost, uRebind >>

UnitLoadTexture ==
  /\ uIn.kind = "texture" /\ uOut = NoOutput
  /\ uOut' = [kind |-> "texture", texture |-> loadTexture(uIn.tex)]
  /\ UNCHANGED << hookVars, uIn, uPost, uRebind >>

UnitVertex ==
  /\ uIn.kind = "vertex" /\ uOut = NoOutput
  /\ uOut' = [kind |-> "vsout", out |-> fullscreenMain(uIn.vid)]
  /\ UNCHANGED << hookVars, uIn, uPost, uRebind >>

\* PostProcessingRenderer.initialize up to its await
UnitPostInitBegin(tex) ==
  /\ uIn.kind = "post" /\ uOut.pc \in { "constructed", "failed" }
  /\ IF tex = 0
       THEN /\ uOut' = [uOut EXCEPT !.pc = "failed", !.error = ErrSceneRequired]
            /\ uPost' = uPost
       ELSE /\ uOut' = [uOut EXCEPT !.pc = "loading", !.error = ""]
            /\ uPost' = [uPost EXCEPT !.sceneColorTexture = tex]
  /\ uRebind' = NoRebind
  /\ UNCHANGED << hookVars, uIn >>

\* PostProcessingRenderer.initialize after its await
UnitPostInitEnd(shadersOk) ==
  /\ uIn.kind = "post" /\ uOut.pc = "loading"
  /\ IF shadersOk
       THEN /\ uOut' = [uOut EXCEPT !.pc = "ready"]
            /\ uPost' = [uPost EXCEPT !.bindGroup = uPost.sceneColorTexture,
                                      !.isInitialized = TRUE]
       ELSE /\ uOut' = [uOut EXCEPT !.pc = "failed", !.error = ErrShader]
            /\ uPost' = uPost
  /\ uRebind' = NoRebind
  /\ UNCHANGED << hookVars, uIn >>

\* updateSceneTexture(tex) on the stand-alone provider, in whatever state it is
UnitRebind(tex) ==
  /\ uIn.kind = "post"
  /\ uRebind' = [tex |-> tex, before |-> uPost, error |-> updateSceneTextureError(uPost, tex)]
  /\ uPost' = updateSceneTexture(uPost, tex)
  /\ UNCHANGED << hookVars, uIn, uOut >>

UnitNext ==
  \/ UnitExtract
  \/ UnitDraw
  \/ UnitLoadTexture
  \/ UnitVertex
  \/ \E tex \in UnitTextures : UnitPostInitBegin(tex)
  \/ \E ok \in BOOLEAN : UnitPostInitEnd(ok)
  \/ \E tex \in UnitTextures : UnitRebind(tex)

UnitSpec == UnitInit /\ [][UnitNext]_vars

\* --------------------------------------------------------------------- C14
\* updateSceneTexture was called on the stand-alone provider and nothing since
Rebound == uRebind # NoRebind

\* C14 (as claimed): a rebind before initialize has completed fails with the
\* not-initialized error, whatever its argument, and a failed rebind leaves the
\* provider unchanged.
C14_RebindBeforeInitNotInitialized ==
  Rebound =>
    /\ ~uRebind.before.isInitialized => uRebind.error = ErrLayout
    /\ uRebind.error # "" => uPost = uRebind.before

\* C14 (amended): a rebind before initialize has completed always fails: with
\* the not-initialized error when it is given a texture, with the
\* missing-texture error when it is given none; after initialize it fails only
\* for a missing texture; a failed rebind leaves the bound source texture and
\* the bind group unchanged, a successful one binds the new texture.
C14_RebindFailureKeepsBinding ==
  Rebound =>
    /\ ~uRebind.before.isInitialized /\ uRebind.tex # 0 => uRebind.error = ErrLayout
    /\ uRebind.tex = 0 => uRebind.error = ErrNewSceneRequired
    /\ uRebind.before.isInitialized /\ uRebind.tex # 0 => uRebind.error = ""
    /\ uRebind.error # "" =>
         /\ uPost.sceneColorTexture = uRebind.before.sceneColorTexture
         /\ uPost.bindGroup = uRebind.before.bindGroup
         /\ uPost = uRebind.before
    /\ uRebind.error = "" =>
         uPost.sceneColorTexture = uRebind.tex /\ uPost.bindGroup = uRebind.tex

\* a rebind with a texture while initialize is still loading its shaders
C14_Witness ==
  /\ Rebound /\ uOut.pc = "loading"
  /\ uRebind.tex = 2 /\ uRebind.before.sceneColorTexture = 1
  /\ uRebind.error = ErrLayout /\ uPost.sceneColorTexture = 1 /\ uPost.bindGroup = 0

\* --------------------------------------------------------------------- C15
\* extractMesh has returned a mesh for the document of the harness
Extracted == uIn.kind = "doc" /\ uOut.kind = "mesh" /\ uOut.mesh.error = ""

\* the index formats of the setIndexBuffer calls of a command list
BoundFormats(cmds) ==
  { f \in { "uint16", "uint32", "none" } :
      \E i \in 1 .. Len(cmds) : cmds[i].op = "model.setIndexBuffer." \o f }

\* C15: for every index array the encoding chosen at extraction is 16-bit
\* when no index exceeds 65535 and 32-bit when some index is 65536 or more,
\* and the one setIndexBuffer call of the draw passes that same encoding,
\* followed by an indexed draw of all the indices.
C15_IndexEncoding ==
  Extracted /\ uIn.doc.hasIndices =>
    LET ix == uIn.doc.indices
        fmt == uOut.mesh.indexFormat
    IN  /\ (\A i \in 1 .. Len(ix) : ix[i] <= 65535) => fmt = "uint16"
        /\ (\E i \in 1 .. Len(ix) : ix[i] >= 65536) => fmt = "uint32"
        /\ BoundFormats(uOut.draw) = { fmt }
        /\ uOut.draw[Len(uOut.draw)] = Cmd("model.drawIndexed", Len(ix))

\* the boundary: a maximum index of exactly 65536 is drawn with 32-bit indices
C15_Witness ==
  /\ Extracted /\ uIn.doc.indices = << 0, 65536, 1 >>
  /\ uOut.mesh.indexFormat = "uint32"
  /\ BoundFormats(uOut.draw) = { "uint32" }

\* --------------------------------------------------------------------- C16
\* C16: extraction fails with the no-mesh error if the document has no mesh,
\* otherwise with the no-primitive error if the first mesh has no primitive,
\* otherwise with the missing-attribute error if the first primitive has no
\* POSITION, and succeeds in every other case.
C16_ExtractionErrors ==
  uIn.kind = "doc" /\ uOut.kind = "mesh" =>
    LET d == uIn.doc
        e == uOut.mesh.error
    IN  /\ d.meshes = 0 => e = ErrNoMesh
        /\ d.meshes > 0 /\ d.primitives = 0 => e = ErrNoPrimitive
        /\ d.meshes > 0 /\ d.primitives > 0 /\ ~d.hasPosition => e = ErrNoPosition
        /\ d.meshes > 0 /\ d.primitives > 0 /\ d.hasPosition => e = ""
        /\ e \in { "", ErrNoMesh, ErrNoPrimitive, ErrNoPosition }

\* a document with two meshes whose first mesh has no primitive
C16_Witness ==
  /\ uIn.kind = "doc" /\ uOut.kind = "mesh"
  /\ uIn.doc.meshes = 2 /\ uIn.doc.primitives = 0
  /\ uOut.mesh.error = ErrNoPrimitive

\* --------------------------------------------------------------------- C17
\* the input of loadTexture is one of the four cases of the claim
FallbackCase(t) ==
  \/ ~t.material /\ ~t.first
  \/ t.bytes \in { "null", "empty" }
  \/ t.mime = "image/ktx2"
  \/ ~t.decodes

\* C17: for a missing texture, a texture without image bytes, a texture tagged
\* image/ktx2 and image bytes that fail to decode, loadTexture does not raise
\* and returns the 2x2 RGBA placeholder red, green, blue, yellow.
C17_TextureFallback ==
  uIn.kind = "texture" /\ uOut.kind = "texture" /\ FallbackCase(uIn.tex) =>
    /\ ~uOut.texture.raised
    /\ uOut.texture.w = 2 /\ uOut.texture.h = 2
    /\ uOut.texture.format = "rgba8unorm"
    /\ uOut.texture.data =
         << 255, 0, 0, 255, 0, 255, 0, 255, 0, 0, 255, 255, 255, 255, 0, 255 >>

\* a png texture with image bytes that createImageBitmap rejects
C17_Witness ==
  /\ uIn.kind = "texture" /\ uOut.kind = "texture"
  /\ uIn.tex.material /\ uIn.tex.bytes = "data" /\ uIn.tex.mime = "image/png"
  /\ ~uIn.tex.decodes
  /\ uOut.texture.kind = "default"

\* --------------------------------------------------------------------- C18
\* C18: without a TEXCOORD_0 attribute the extracted texcoords have length
\* 2 * vertexCount and are all zero, vertexCount being the number of position
\* triples.
C18_DefaultTexcoords ==
  Extracted /\ ~uIn.doc.hasTexcoord =>
    /\ uOut.mesh.vertexCount * 3 = Len(uIn.doc.positions)
    /\ Len(uOut.mesh.texcoords) = 2 * uOut.mesh.vertexCount
    /\ \A i \in 1 .. Len(uOut.mesh.texcoords) : uOut.mesh.texcoords[i] = 0

\* two vertices without texcoords: four zeros
C18_Witness ==
  /\ Extracted /\ ~uIn.doc.hasTexcoord
  /\ Len(uIn.doc.positions) = 6
  /\ uOut.mesh.texcoords = << 0, 0, 0, 0 >>

\* --------------------------------------------------------------------- C19
\* the corners the claim lists for vertex indices 0 .. 5, as (x, y, u, v)
ClaimedCorners ==
  << << -1, -1, 0, 1 >>, << 1, -1, 1, 1 >>, << -1, 1, 0, 0 >>,
     << -1, 1, 0, 0 >>, << 1, -1, 1, 1 >>, << 1, 1, 1, 0 >> >>

\* C19: for each of the six vertex indices the shader outputs the claimed
\* corner and uv, and the uv is the vertically flipped image of the position:
\* 2u = x + 1 and 2v = 1 - y.
C19_FullscreenUv ==
  uIn.kind = "vertex" /\ uOut.kind = "vsout" =>
    LET x == uOut.out.position[1]
        y == uOut.out.position[2]
        u == uOut.out.uv[1]
        v == uOut.out.uv[2]
    IN  /\ << x, y, u, v >> = ClaimedCorners[uIn.vid + 1]
        /\ 2 * u = x + 1
        /\ 2 * v = 1 - y
        /\ uOut.out.position[3] = 0 /\ uOut.out.position[4] = 1

\* vertex 5, the top-right corner, samples (1, 0)
C19_Witness ==
  /\ uIn.kind = "vertex" /\ uOut.kind = "vsout" /\ uIn.vid = 5
  /\ uOut.out.position = << 1, 1, 0, 1 >> /\ uOut.out.uv = << 1, 0 >>

\* --------------------------------------------------------------------- C20
\* C20 (as claimed): while a generation is Running, the color and the depth
\* texture it allocated as Scene Targets have the same dimensions, and these are
\* the width and height of the canvas.
C20_TargetsMatchCanvas ==
  \A g \in Gens : Running(g) =>
    LET color == textures[task[g].color]
        depth == textures[task[g].depth]
    IN  /\ color.w = depth.w /\ color.h = depth.h
        /\ color.w = canvasW /\ color.h = canvasH

\* --------------------------------------------------------------------- C21
\* C21: the generation token changes only in a start (the step that sets the
\* liveness flag), and then by exactly one, to a generation that had not been
\* started; every start changes it; so the started generations are exactly
\* 1 .. generationRef and a superseded generation never becomes current again.
C21_GenerationMonotonic ==
  /\ [](\A g \in Gens : task[g].pc # "idle" <=> g <= generationRef)
  /\ [][/\ generationRef' # generationRef =>
             /\ generationRef' = generationRef + 1
             /\ ~aliveRef /\ aliveRef'
             /\ task[generationRef'].pc = "idle"
        /\ (~aliveRef /\ aliveRef') => generationRef' = generationRef + 1
        /\ (lastResize' # NoResize \/ FrameRan \/ (aliveRef /\ ~aliveRef')
              \/ lastStep' # lastStep) => generationRef' = generationRef]_vars

\* generation 1 resumed after generation 2 had been started, and abandoned
C21_Witness ==
  /\ generationRef = 2 /\ aliveRef
  /\ lastStep.superseded /\ task[1].pc = "abandoned"
  /\ task[2].pc = "running"

\* --------------------------------------------------------------------- C22
\* C22: an execution of render() submits at most once; what it submits is one
\* command buffer with exactly one scene pass holding the triangle draw and
\* then the mesh draw, followed by exactly one post pass with one draw of 6
\* vertices; without a post pass nothing is finished or submitted.
C22_OneSubmissionPerFrame ==
  LET st == lastFrame.steps IN
  /\ Count(st, { "submit" }) <= 1 /\ Count(st, { "finish" }) <= 1
  /\ Count(st, { "createCommandEncoder" }) <= 1
  /\ (lastFrame.outcome = "submitted") <=> (Count(st, { "submit" }) = 1)
  /\ Count(st, { "submit" }) = 1 =>
       /\ TwoPassFrame(st)
       /\ st[Len(st)].op = "submit" /\ st[Len(st) - 1].op = "finish"
       /\ Pos(st, "endScenePass") < Pos(st, "beginPostPass")
       /\ Pos(st, "endPostPass") < Pos(st, "finish")
       /\ \E i \in DrawsBetween(st, "beginScenePass", "endScenePass") :
            /\ Pos(st, "triangle.draw") < i
            /\ st[i].op \in { "model.draw", "model.drawIndexed" }
  /\ Count(st, { "endPostPass" }) = 0 => Count(st, { "finish", "submit" }) = 0

\* the second frame of a loop was submitted
C22_Witness ==
  /\ lastFrame.outcome = "submitted" /\ nextHandle > 2
  /\ Count(lastFrame.steps, { "submit" }) = 1
  /\ Pos(lastFrame.steps, "model.draw") # 0

\* --------------------------------------------------------------------- C23
\* the provider of generation g whose initialize made initWebGPU fail ("": none)
FailedProvider(g) ==
  IF task[g].pc # "failed" THEN ""
  ELSE IF post[g].created THEN "post"
  ELSE IF model[g].created THEN "model"
  ELSE IF triangle[g].created THEN "triangle"
  ELSE ""

\* C23: a generation gets past a provider only when that provider's initialize
\* succeeded; a generation whose start failed inside a provider's initialize has
\* surfaced an error, is not Running, has created none of the later providers,
\* has initialized none of them, has no frame pending and has submitted
\* nothing; as long as it is the only generation the error is the one the
\* provider threw: the shader error, the model fetch error or the error of
\* extractMesh for the document.
C23_ProviderFailureEndsStart ==
  /\ \A g \in Gens :
       /\ task[g].pc \in { "modelInit", "postInit", "running", "abandoned" }
            => triangle[g].pipeline
       /\ task[g].pc \in { "postInit", "running" } => model[g].isInitialized
       /\ task[g].pc = "running" => post[g].isInitialized
       /\ task[g].pc = "abandoned" =>
            /\ model[g].created => model[g].isInitialized
            /\ post[g].created => post[g].isInitialized
  /\ \A g \in Gens : FailedProvider(g) # "" =>
    /\ error # ""
    /\ ~Running(g) /\ g \notin submitted /\ g \notin renderFailed
    /\ \A cb \in scheduled : cb.gen # g
    /\ FailedProvider(g) = "triangle" => ~triangle[g].pipeline /\ ~model[g].created
    /\ FailedProvider(g) \in { "triangle", "model" } => ~post[g].created
    /\ FailedProvider(g) = "model" => ~model[g].isInitialized
    /\ FailedProvider(g) = "post" => ~post[g].isInitialized
    /\ generationRef = 1 =>
         /\ ~isInitialized /\ lastFrame = NoFrame
         /\ FailedProvider(g) \in { "triangle", "post" } => error = ErrShader
         /\ FailedProvider(g) = "model" =>
              error = CASE task[g].doc = "none" -> ErrFetchModel
                        [] task[g].doc = "noMesh" -> ErrNoMesh
                        [] task[g].doc = "noPrimitive" -> ErrNoPrimitive
                        [] task[g].doc = "noPosition" -> ErrNoPosition
                        [] OTHER -> ErrShader

\* the mesh provider failed on a document without a POSITION attribute
C23_Witness ==
  /\ generationRef = 1 /\ FailedProvider(1) = "model"
  /\ task[1].doc = "noPosition" /\ error = ErrNoPosition
  /\ triangle[1].pipeline /\ ~post[1].created

\* --------------------------------------------------------------------- C24
\* C24: a call of the mesh provider's render on an initialized provider issues
\* exactly one draw: drawIndexed(indexCount) if and only if the document has
\* indices, otherwise draw(vertexCount); the provider is the same before and
\* after the call.
C24_OneMeshDraw ==
  [][(uOut.kind = "mesh" /\ uOut'.kind = "drawn") =>
       LET d == uIn.doc
           cmds == uOut'.draw
       IN  /\ Count(cmds, DrawOps) = 1
           /\ d.hasIndices <=> Count(cmds, { "model.drawIndexed" }) = 1
           /\ d.hasIndices => cmds[Len(cmds)] = Cmd("model.drawIndexed", Len(d.indices))
           /\ ~d.hasIndices =>
                cmds = << Cmd("model.draw", uOut.mesh.vertexCount) >>
           /\ uOut'.model = uOut.model /\ uOut'.mesh = uOut.mesh]_vars

\* an indexed draw of three indices over two vertices
C24_Witness ==
  /\ uIn.kind = "doc" /\ uOut.kind = "drawn"
  /\ uIn.doc.indices = << 0, 1, 0 >> /\ uOut.model.vertexCount = 2
  /\ uOut.draw[Len(uOut.draw)] = Cmd("model.drawIndexed", 3)

\* --------------------------------------------------------------------- C25
\* C25 (as claimed): the commands an execution of render() of generation g
\* records are recorded with the device of g, and its scene pass renders to
\* the scene color texture that g allocated.
C25_FrameUsesOwnGeneration ==
  \A i \in 1 .. Len(lastFrame.steps) :
    LET c == lastFrame.steps[i] IN
    /\ c.op = "createCommandEncoder" => c.n = lastFrame.gen
    /\ c.op = "beginScenePass" =>
         /\ c.n = task[lastFrame.gen].color
         /\ textures[c.n].device = lastFrame.gen

\* --------------------------------------------------------------------- C26
\* C26 (as claimed): a resumed step of initWebGPU(g), or an execution of
\* render() of g, that runs when g has been superseded or torn down leaves the
\* error as it was.
C26_StaleNeverSetsError ==
  [][/\ \A g \in Gens :
          (task[g].pc # "idle" /\ Stale(g) /\ task'[g] # task[g]) => error' = error
     /\ (FrameRan /\ (~lastFrame'.alive \/ lastFrame'.gen # lastFrame'.cur))
          => error' = error]_vars

\* --------------------------------------------------------------------- C27
\* C27 (as claimed): isInitialized is true only while the current generation
\* is Running, and never together with a set error.
C27_InitializedMeansRunning ==
  isInitialized => (Running(generationRef) /\ error = "")

\* --------------------------------------------------------------------- C28
\* The hook when every external step succeeds: an adapter and a device are
\* granted, the shaders are fetched, the model loads and holds a mesh, a
\* current texture is available and no platform call throws. Every pending
\* promise resolves and every requested animation frame fires.
GoodDocs == { d \in Docs : extractMesh(d).error = "" }

SuccessInit == Init /\ hasGpu

SuccessNext ==
  \/ \E s \in Sizes : Start(s[1], s[2])
  \/ Teardown
  \/ CommitErrorView
  \/ \E g \in Gens : AdapterResolved(g, TRUE)
  \/ \E g \in Gens : DeviceResolved(g, TRUE)
  \/ \E g \in Gens : TriInitResolved(g, TRUE)
  \/ \E g \in Gens, d \in GoodDocs : ModelInitResolved(g, d, TRUE, TRUE)
  \/ \E g \in Gens : PostInitResolved(g, TRUE, TRUE, "none")
  \/ \E cb \in scheduled : Frame(cb, TRUE, "none")

SuccessFairness ==
  /\ \A g \in Gens :
       /\ WF_vars(AdapterResolved(g, TRUE))
       /\ WF_vars(DeviceResolved(g, TRUE))
       /\ WF_vars(TriInitResolved(g, TRUE))
       /\ WF_vars(\E d \in GoodDocs : ModelInitResolved(g, d, TRUE, TRUE))
       /\ WF_vars(PostInitResolved(g, TRUE, TRUE, "none"))
  /\ WF_vars(\E cb \in scheduled : Frame(cb, TRUE, "none"))

SuccessSpec == SuccessInit /\ [][SuccessNext]_vars /\ SuccessFairness

\* the calls have ended in a start with a valid size on a mounted canvas
LastStartValid == aliveRef /\ task[generationRef].pc # "returned"

\* C28 (as claimed): when the calls end in a start with a valid size and every
\* external step succeeds, the frame loop does not stop: frames keep being
\* requested (here: until the MaxFrames handles of the model are used up).
C28_LastGenerationKeepsRunning ==
  <>[]LastStartValid => <>(nextHandle > MaxFrames)

\* --------------------------------------------------------------------- C29
\* C29: at most one frame callback is pending; none is pending once the
\* cleanup has run; the pending callback is the one whose handle
\* animationIdRef stores, and a stored handle is the most recently issued one.
C29_OnePendingFrame ==
  /\ Cardinality(scheduled) <= 1
  /\ ~aliveRef => scheduled = {}
  /\ \A cb \in scheduled : cb.id = animationIdRef /\ cb.gen = generationRef
  /\ animationIdRef # 0 => animationIdRef = nextHandle - 1

\* generation 2 has its frame pending after the cleanup cancelled the frame
\* generation 1 had requested
C29_Witness ==
  /\ scheduled = { [id |-> 2, gen |-> 2] } /\ animationIdRef = 2
  /\ task[1].pc = "running" /\ aliveRef /\ generationRef = 2

\* --------------------------------------------------------------------- C30
\* C30 (as claimed): a set error is never cleared, and no generation started
\* while the error was set reaches Running.
C30_ErrorAbsorbing ==
  /\ [][error # "" => error' # ""]_vars
  /\ [](\A g \in Gens : task[g].errorAtStart => task[g].pc # "running")

====
